---- MODULE Spec2Model ----
(***************************************************************************)
(* Model of the two alert-to-pull-request pipelines of cwikops/pub:        *)
(*   src/advanced security/security_alert_fixer.py     (SecurityAlertFixer)*)
(*   src/advanced security/v2/dependency_security_fixer.py                 *)
(*                                                 (DependencySecurityFixer)*)
(* One run is: fetch_alerts, then the loop of run() over the filtered      *)
(* alerts, each alert going through process_alert (or                      *)
(* process_dependency_alert) one statement group at a time.  Every git     *)
(* command run with check=True and every HTTP call may succeed or fail.    *)
(* apply_fix and _get_fix_strategy are also modelled on their own, over     *)
(* registries, alert types and files of characters (SpecResolve, SpecPatch).*)
(***************************************************************************)
EXTENDS Naturals, Sequences, FiniteSets

\* ---------------------------------------------------------------- bounds
MaxAlerts == 2        \* alerts returned by the store in a pipeline run
MaxCap == 3           \* largest max_prs_per_run tried
MaxRaw == 3           \* alerts in a list given to the severity filter alone
MaxLimit == 2         \* largest max_lines_changed_per_file tried
MaxSecretLines == 1   \* lines a hardcoded-secret fix comments out
NumPackages == 2      \* distinct package/fixed-version pairs
MaxRuns == 2          \* runs of the orchestrator over the same remote
MaxEntries == 2       \* entries of alert_strategies
MaxFileLines == 3     \* lines of the file a fix is applied to
MaxSpan == 1          \* end_line - start_line of an alert's region
MaxSubmissions == 3   \* pull request payloads built in one run
MaxReqLines == 3      \* lines of a requirements file

\* ------------------------------------------------------- fetch: pure part
Pipelines == {"alert", "dependency"}
Thresholds == {"critical", "high", "medium", "low"}
\* Severity strings as the store may send them: any case, unknown, missing ("").
Severities == {"critical", "HIGH", "medium", "low", "info", ""}
AlertTypes == {"dependency", "sql-injection"}

\* str.lower() on the strings of the model.
Lower(s) ==
    CASE s = "HIGH" -> "high"
      [] s = "Critical" -> "critical"
      [] OTHER -> s

\* severity_order.get(s, default)
SeverityOrderGet(s, default) ==
    CASE s = "critical" -> 4
      [] s = "high" -> 3
      [] s = "medium" -> 2
      [] s = "low" -> 1
      [] OTHER -> default

AlertRank(alert) == SeverityOrderGet(Lower(alert.severity), 0)

MinSeverity(filter) == SeverityOrderGet(Lower(filter), 3)

PassesStrictlyAbove(alert, filter) == AlertRank(alert) > MinSeverity(filter)

PassesSeverity(alert, filter) == AlertRank(alert) >= MinSeverity(filter)

\* any(keyword in alert_type or keyword in title for keyword in dependency_keywords)
IsDependency(alert) == alert.alertType = "dependency"

RECURSIVE Filter(_, _, _)
Filter(s, filter, onlyDeps) ==
    IF s = <<>> THEN <<>>
    ELSE LET rest == Filter(Tail(s), filter, onlyDeps)
             keep == PassesSeverity(Head(s), filter)
                     /\ (onlyDeps => IsDependency(Head(s)))
         IN IF keep THEN <<Head(s)>> \o rest ELSE rest

RECURSIVE InsertBeforeEquals(_, _)
InsertBeforeEquals(x, sorted) ==
    IF sorted = <<>> THEN <<x>>
    ELSE IF AlertRank(Head(sorted)) > AlertRank(x)
         THEN <<Head(sorted)>> \o InsertBeforeEquals(x, Tail(sorted))
         ELSE <<x>> \o sorted

\* list.sort(key=rank, reverse=True): stable, highest rank first.  x goes
\* behind every element already placed whose rank is not below its own.
RECURSIVE InsertByRank(_, _)
InsertByRank(x, sorted) ==
    IF sorted = <<>> THEN <<x>>
    ELSE IF AlertRank(Head(sorted)) >= AlertRank(x)
         THEN <<Head(sorted)>> \o InsertByRank(x, Tail(sorted))
         ELSE <<x>> \o sorted

RECURSIVE SortBySeverity(_)
SortBySeverity(s) ==
    IF s = <<>> THEN <<>>
    ELSE InsertByRank(s[Len(s)], SortBySeverity(SubSeq(s, 1, Len(s) - 1)))

FilteredAlerts(raw, filter, pl) ==
    SortBySeverity(Filter(raw, filter, pl = "dependency"))

\* ------------------------------------------------- strategies: pure part
\* Strings of this part are sequences of pieces; "SQL" is "sql" in upper case.
\* str.lower()
LowerStr(str) == [i \in DOMAIN str |-> IF str[i] = "SQL" THEN "sql" ELSE str[i]]

\* Python's `p in s` on strings
IsSubstring(p, s) ==
    \E i \in 0..Len(s) : i + Len(p) <= Len(s) /\ SubSeq(s, i + 1, i + Len(p)) = p

\* The return value None of _get_fix_strategy
NoStrategy == [key |-> <<>>, fix_type |-> "None"]

\* for key, strategy in strategies.items():
\*     if key.lower() in alert_type or alert_type in key.lower(): return strategy
RECURSIVE PartialMatch(_, _)
PartialMatch(entries, alert_type) ==
    IF entries = <<>> THEN NoStrategy
    ELSE IF IsSubstring(LowerStr(Head(entries).key), alert_type)
            \/ IsSubstring(alert_type, LowerStr(Head(entries).key))
         THEN Head(entries)
         ELSE PartialMatch(Tail(entries), alert_type)

PartialMatchOnly(strategies, alert_type) == PartialMatch(strategies, alert_type)

\* _get_fix_strategy: strategies is the mapping in its configured order.
GetFixStrategy(strategies, alert_type) ==
    IF \E i \in DOMAIN strategies : strategies[i].key = alert_type
    THEN strategies[CHOOSE i \in DOMAIN strategies : strategies[i].key = alert_type]
    ELSE PartialMatch(strategies, alert_type)

\* strategy.get('fix_type', 'comment'), and the comment fallback of apply_fix
\* "manual_review" stands for a fix_type apply_fix has no branch for.
FixTypes == {"parameterized_query", "sanitization", "environment_variable",
             "secure_random", "path_validation", "comment", "manual_review"}

\* ------------------------------------------------------ fixes: pure part
\* A line is a sequence of characters; the lines of a file end with "\n",
\* the last one possibly not.
Whitespace == {" ", "\n"}

RECURSIVE LStrip(_)
LStrip(str) ==
    IF str = <<>> THEN <<>>
    ELSE IF Head(str) \in Whitespace THEN LStrip(Tail(str)) ELSE str

RECURSIVE RStrip(_)
RStrip(str) ==
    IF str = <<>> THEN <<>>
    ELSE IF str[Len(str)] \in Whitespace THEN RStrip(SubSeq(str, 1, Len(str) - 1)) ELSE str

Strip(str) == RStrip(LStrip(str))

StartsWith(str, prefix) ==
    Len(prefix) <= Len(str) /\ SubSeq(str, 1, Len(prefix)) = prefix

\* _get_indent: line[:len(line) - len(line.lstrip())]
GetIndent(line) == SubSeq(line, 1, Len(line) - Len(LStrip(line)))

Exts == {".py", ".js", ".go"}

\* _get_comment_for_language with the language each fix passes for the
\* file's extension; "msg" stands for the message text.
CommentFor(ext) ==
    IF ext = ".js" THEN <<"/", "/", " ", "msg">> ELSE <<"#", " ", "msg">>

\* f"{indent}{comment}\n"
AdvisoryLine(indent, ext) == indent \o CommentFor(ext) \o <<"\n">>

\* lines[k] with a Python index k = start_line - 1 >= -1: -1 is the last
\* element, an index past the end raises IndexError.
IndexOK(lines, start_line) ==
    IF start_line = 0 THEN Len(lines) >= 1 ELSE start_line <= Len(lines)

LineAt(lines, start_line) ==
    IF start_line = 0 THEN lines[Len(lines)] ELSE lines[start_line]

\* lines.insert(start_line - 1, x): insert(-1, x) goes before the last element.
InsertAt(lines, start_line, x) ==
    LET pos == IF start_line = 0 THEN Len(lines) ELSE start_line
    IN SubSeq(lines, 1, pos - 1) \o <<x>> \o SubSeq(lines, pos, Len(lines))

\* indent = self._get_indent(lines[start_line - 1]); lines.insert(...)
InsertAdvisory(lines, start_line, ext) ==
    InsertAt(lines, start_line, AdvisoryLine(GetIndent(LineAt(lines, start_line)), ext))

Min2(a, b) == IF a <= b THEN a ELSE b

\* The 1-based positions range(start_line - 1, min(end_line, len(lines)))
\* visits in the list that already holds the advisory line.
VisitedPositions(n, start_line, end_line) ==
    { i \in 1..n : start_line <= i /\ i <= Min2(end_line, n) }
        \cup (IF start_line = 0 THEN {n} ELSE {})

IsCommentLine(line) ==
    StartsWith(Strip(line), <<"#">>) \/ StartsWith(Strip(line), <<"/", "/">>)

\* lines[i] = f"{indent}# REMOVED: {lines[i].lstrip()}", where the extension
\* has a branch; other extensions leave the line.
RemovedLine(line, indent, ext) ==
    IF IsCommentLine(line) THEN line
    ELSE IF ext = ".py" THEN indent \o <<"#", " ", "REMOVED:", " ">> \o LStrip(line)
    ELSE IF ext = ".js" THEN indent \o <<"/", "/", " ", "REMOVED:", " ">> \o LStrip(line)
    ELSE line

\* _fix_hardcoded_secret: the list handed to writelines.
SecretFixLines(lines, start_line, end_line, ext) ==
    LET indent == GetIndent(LineAt(lines, start_line))
        withAdvisory == InsertAdvisory(lines, start_line, ext)
        visited == VisitedPositions(Len(withAdvisory), start_line, end_line)
    IN [i \in DOMAIN withAdvisory |->
          IF i \in visited THEN RemovedLine(withAdvisory[i], indent, ext)
          ELSE withAdvisory[i]]

\* f.writelines(lines): the file's text.
RECURSIVE Concat(_)
Concat(lines) == IF lines = <<>> THEN <<>> ELSE Head(lines) \o Concat(Tail(lines))

\* f.readlines() of a text: split behind every "\n".
RECURSIVE ReadLines(_, _)
ReadLines(text, acc) ==
    IF text = <<>> THEN (IF acc = <<>> THEN <<>> ELSE <<acc>>)
    ELSE IF Head(text) = "\n" THEN <<acc \o <<"\n">>>> \o ReadLines(Tail(text), <<>>)
    ELSE ReadLines(Tail(text), acc \o <<Head(text)>>)

\* A dispatch that gives up on a fix_type it has no branch for.
KnownKindsOnly(fix_type, lines, start_line) ==
    /\ fix_type \in {"parameterized_query", "sanitization", "environment_variable",
                     "path_validation"}
    /\ start_line >= 1 /\ start_line <= Len(lines)

\* What a fix hands to writelines, or the list unchanged when it returns False.
\*   parameterized_query: rejects start_line <= 0 or start_line > len(lines)
\*   secure_random: f.seek(0) on the closed file raises, the fix returns False
\*   the others: an IndexError of lines[start_line - 1] is caught
FixSucceeds(fix_type, lines, start_line) ==
    CASE fix_type = "secure_random" -> FALSE
      [] fix_type = "parameterized_query" -> start_line >= 1 /\ start_line <= Len(lines)
      [] OTHER -> IndexOK(lines, start_line)

FixedLines(fix_type, lines, start_line, end_line, ext) ==
    IF ~FixSucceeds(fix_type, lines, start_line) THEN lines
    ELSE IF fix_type = "environment_variable"
         THEN SecretFixLines(lines, start_line, end_line, ext)
         ELSE InsertAdvisory(lines, start_line, ext)

\* ------------------------------------------------------------ run: pure part
\* len(alerts[:max_prs]) for max_prs >= 0
SliceLen(n, cap) == IF cap < n THEN cap ELSE n

LoopUncapped(i, n, created, cap) == i <= n

LoopOffByOne(i, n, created, cap) == i <= n /\ ~(created > cap)

\* for alert in alerts[:max_prs]: if self.prs_created >= max_prs: break
LoopContinues(i, n, created, cap) == i <= SliceLen(n, cap) /\ ~(created >= cap)

Trunk == <<"main", 0>>
NoBranch == <<"", 0>>

\* f"{branch_prefix}/alert-{alert_id}" and f"{branch_prefix}/{package_name}-{fixed_version}"
BranchName(pl, alert) ==
    IF pl = "alert" THEN <<"security-fix/alert-", alert.alertId>>
    ELSE <<"security/dependency-update/", alert.pkg>>

BranchNeverExists(remoteHeads, b) == FALSE

\* git ls-remote --heads origin <branch>: bool(result.stdout)
BranchExists(remoteHeads, b) == b \in remoteHeads

\* Lines starting with '+' or '-' in `git diff --cached <file>`: the staged
\* added and removed lines and, when there is a diff at all, the two header
\* lines '--- a/<file>' and '+++ b/<file>'.
DiffCachedMarkers(stagedLines) == IF stagedLines = 0 THEN 0 ELSE stagedLines + 2

\* (added_lines + removed_lines) <= max_lines
WithinLimits(stagedLines, maxLines) == DiffCachedMarkers(stagedLines) <= maxLines

\* One advisory line inserted; the secret fix also rewrites m lines (each a
\* removed and an added line).
PatchLines(m) == 1 + 2 * m

SuccessWithoutPR(dry, created) == IF dry THEN "dry_run" ELSE "success"

\* _generate_summary: 'status' (the alert pipeline has no dry run)
SummaryStatus(dry, created) ==
    IF dry THEN "dry_run"
    ELSE IF created > 0 THEN "success" ELSE "no_prs_created"

\* main: return 0 if summary['prs_created'] > 0 [or args.dry_run] else 1
MainReturn(dry, created) == IF created > 0 \/ dry THEN 0 ELSE 1

AfterGateIgnored(passed) == "add"

\* if not self._check_change_limits(file_path): cleanup and return False
AfterGate(passed) == IF passed THEN "add" ELSE "cleanup"

StayOnBranch(ok, branch) == branch

\* finally: self._git_run(['checkout', 'main'])
CheckoutMain(ok, branch) == IF ok THEN Trunk ELSE branch

\* ------------------------------------------------------------------ state
VARIABLES
    pipeline,          \* which of the two scripts runs
    env_ok,            \* the five pipeline environment variables are all set
    dry_run,           \* DependencySecurityFixer.dry_run
    max_prs,           \* limits.max_prs_per_run / self.max_prs_per_run
    max_lines,         \* limits.max_lines_changed_per_file
    severity_filter,   \* --severity
    rawAlerts,         \* what the store's listing returns
    listing,           \* answer of the listing request: "pending", "ok" (200), "error"
    alerts,            \* the filtered, sorted list run() iterates
    pc,                \* position in run() / process_alert()
    idx,               \* 1-based position of the loop in alerts
    prs_created,       \* self.prs_created
    alerts_processed,  \* self.alerts_processed
    cur,               \* checked-out branch of the working copy
    localHeads,        \* local branches other than trunk
    remoteHeads,       \* branches on origin other than trunk
    staged,            \* changed lines in the index against HEAD
    unstaged,          \* changed lines in the working tree, not yet staged
    hostPRs,           \* source branches of the pull requests the host accepted in this run
    branch_name,       \* working branch of the attempt in progress
    exitAt,            \* the return (or raise) by which the last attempt left
    result,            \* return value of process_alert
    gate,              \* [ran, passed, lines]: _check_change_limits in this attempt
    steps,             \* the steps of the try block this attempt has completed, in order
    run,               \* 1 for the first run, 2 for a rerun on the same remote
    earlierPRs,        \* alert ids that received a pull request in an earlier run
    prevAlerts,        \* the filtered list the run before iterated
    invoked,           \* alert ids run() has handed to process_alert, in call order
    strategies,        \* config['alert_strategies'], in its configured order
    alert_type,        \* the argument of _get_fix_strategy
    strategy,          \* what _get_fix_strategy returned
    file_lines,        \* readlines() of the file at file_path before the fix or update
    start_line,        \* region.startLine of the alert
    end_line,          \* region.endLine of the alert
    ext,               \* Path(file_path).suffix
    fix_applied,       \* return value of apply_fix or update_requirement
    written,           \* readlines() of the file after apply_fix or update_requirement
    io,                \* what the file system did to the fix's read and write
    default_labels,    \* config['pr_config']['default_labels'], if configured
    pr_labels,         \* the labels of the last pull request payload
    package_name       \* the package update_requirement is called for

config == <<pipeline, env_ok, dry_run, max_prs, max_lines, severity_filter, rawAlerts>>
git == <<cur, localHeads, remoteHeads, staged, unstaged>>
counters == <<prs_created, alerts_processed, hostPRs>>
attempt == <<branch_name, exitAt, result, gate, steps>>
earlier == <<earlierPRs, prevAlerts>>
engine == <<strategies, alert_type, strategy, file_lines, start_line, end_line, ext,
            fix_applied, written, io, default_labels, pr_labels, package_name>>
vars == <<config, listing, alerts, pc, idx, counters, git, attempt, run, earlier, invoked,
          engine>>

NoGate == [ran |-> FALSE, passed |-> FALSE, lines |-> 0]

\* The alerts of a store: alertId is the position in the listing.
RawLists(n, sevs, types, pkgs) ==
    { [i \in 1..n |-> [alertId |-> i, severity |-> f[i].severity,
                       alertType |-> f[i].alertType, pkg |-> f[i].pkg]] :
        f \in [1..n -> [severity : sevs, alertType : types, pkg : pkgs]] }

\* __init__ and a fresh clone of the repository on trunk.
InitRun ==
    /\ listing = "pending"
    /\ alerts = <<>>
    /\ pc = "start"
    /\ idx = 1
    /\ prs_created = 0
    /\ alerts_processed = <<>>
    /\ cur = Trunk
    /\ localHeads = {}
    /\ remoteHeads = {}
    /\ staged = 0
    /\ unstaged = 0
    /\ hostPRs = <<>>
    /\ branch_name = NoBranch
    /\ exitAt = ""
    /\ result = FALSE
    /\ gate = NoGate
    /\ steps = <<>>
    /\ run = 1
    /\ earlierPRs = {}
    /\ prevAlerts = <<>>
    /\ invoked = <<>>

\* No pull request payload has been built.
NoLabelling ==
    /\ default_labels = [configured |-> FALSE, labels |-> <<>>]
    /\ pr_labels = <<>>

\* No strategy lookup and no fix in progress.
NoEngine ==
    /\ strategies = <<>>
    /\ alert_type = <<>>
    /\ strategy = NoStrategy
    /\ file_lines = <<>>
    /\ start_line = 1
    /\ end_line = 1
    /\ ext = ".py"
    /\ fix_applied = FALSE
    /\ written = <<>>
    /\ io = "ok"
    /\ NoLabelling
    /\ package_name = <<>>

\* A pipeline run: every alert of the store passes the filter.
Init ==
    /\ pipeline \in Pipelines
    /\ env_ok \in BOOLEAN
    /\ dry_run \in (IF pipeline = "dependency" THEN BOOLEAN ELSE {FALSE})
    /\ max_prs \in 0..MaxCap
    /\ max_lines \in (IF pipeline = "alert" THEN 1..MaxLimit ELSE {MaxLimit})
    /\ severity_filter = "high"
    /\ \E n \in 0..MaxAlerts :
         rawAlerts \in (IF pipeline = "alert"
                        THEN RawLists(n, {"high"}, {"sql-injection"}, {0})
                        ELSE RawLists(n, {"high"}, {"dependency"}, 1..NumPackages))
    /\ InitRun
    /\ NoEngine

\* The filter alone, over every severity and threshold.
InitFetch ==
    /\ pipeline \in Pipelines
    /\ env_ok = TRUE
    /\ dry_run = FALSE
    /\ max_prs = MaxCap
    /\ max_lines = MaxLimit
    /\ severity_filter \in Thresholds
    /\ \E n \in 0..MaxRaw :
         rawAlerts \in RawLists(n, Severities,
                                IF pipeline = "alert" THEN {"sql-injection"} ELSE AlertTypes,
                                {1})
    /\ InitRun
    /\ NoEngine

\* ---------------------------------------------------------------- run()
\* main() builds the fixer.  DependencySecurityFixer.__init__ raises
\* EnvironmentError when a variable is unset, and main returns 2;
\* SecurityAlertFixer.__init__ reads the variables and goes on.
Startup ==
    /\ pc = "start"
    /\ pc' = IF pipeline = "dependency" /\ ~env_ok THEN "env_error" ELSE "fetch"
    /\ UNCHANGED <<config, engine, listing, alerts, idx, counters, git, attempt, run, earlier, invoked>>

\* fetch_alerts / fetch_dependency_alerts, and run()'s `if not alerts: return`.
FetchAlerts ==
    /\ pc = "fetch"
    /\ \E ok \in BOOLEAN :
         LET got == IF ok THEN FilteredAlerts(rawAlerts, severity_filter, pipeline)
                    ELSE <<>>
         IN /\ listing' = IF ok THEN "ok" ELSE "error"
            /\ alerts' = got
            /\ pc' = IF got = <<>> THEN "done" ELSE "loop"
    /\ UNCHANGED <<config, engine, idx, counters, git, attempt, run, earlier, invoked>>

\* A loop that hands the head of the list to every call.
FirstAlert == alerts[1]

\* for alert in alerts[:max_prs]: the loop variable.
CurrentAlert == alerts[idx]

\* The for statement of run(): the next alert of the slice, or the summary;
\* success = self.process_alert(alert).
LoopNext ==
    /\ pc = "loop"
    /\ IF LoopContinues(idx, Len(alerts), prs_created, max_prs)
       THEN pc' = "detail" /\ invoked' = Append(invoked, CurrentAlert.alertId)
       ELSE pc' = "done" /\ UNCHANGED invoked
    /\ UNCHANGED <<config, engine, listing, alerts, idx, counters, git, attempt, run, earlier>>

ReturnEarlyAsSuccess(why) ==
    /\ pc' = "ret"
    /\ exitAt' = why
    /\ result' = TRUE

\* An early exit that goes through _cleanup_branch and the final checkout.
ThroughCleanup == "cleanup"

\* 'return False' ahead of the try block hands control straight back to run().
AfterEarlyReturn == "ret"

\* A return of process_alert before the try block: nothing to undo.
ReturnEarly(why) ==
    /\ pc' = AfterEarlyReturn
    /\ exitAt' = why
    /\ result' = FALSE

\* ------------------------------------ process_alert / process_dependency_alert
\* get_alert_details: None unless the store answers 200.
GetAlertDetails ==
    /\ pc = "detail"
    /\ \E ok \in BOOLEAN :
         IF ok THEN pc' = "locate" /\ UNCHANGED <<exitAt, result>>
         ELSE ReturnEarly("no_detail")
    /\ UNCHANGED <<config, engine, listing, alerts, idx, counters, git, branch_name, gate, steps, run, earlier, invoked>>

\* What the detail lets the pipeline act on.
\*   alert:      physicalLocations empty; _should_skip_file
\*   dependency: extract_package_info None; no fixed_version; no requirements file
LocateStops ==
    IF pipeline = "alert" THEN {"no_location", "excluded"}
    ELSE {"no_package", "no_fixed_version", "no_requirements"}

Locate ==
    /\ pc = "locate"
    /\ \/ pc' = "branch_check" /\ UNCHANGED <<exitAt, result>>
       \/ \E why \in LocateStops : ReturnEarly(why)
    /\ UNCHANGED <<config, engine, listing, alerts, idx, counters, git, branch_name, gate, steps, run, earlier, invoked>>

DryRunEntry(alert) == [alert_id |-> alert.alertId, status |-> "dry_run_would_fix"]
CreatedEntry(alert) == [alert_id |-> alert.alertId, status |-> "pr_created"]

\* A pipeline that goes on to the branch in a dry run too.
DryRunIgnored(dry) == FALSE

\* if self.dry_run: ... return True, ahead of 'git checkout -b'.
ReturnsBeforeBranch(dry) == dry

\* branch_name = ...; if self._branch_exists(branch_name): return False;
\* (dependency) if self.dry_run: record and return True.
BranchCheck ==
    /\ pc = "branch_check"
    /\ branch_name' = BranchName(pipeline, CurrentAlert)
    /\ IF BranchExists(remoteHeads, branch_name')
       THEN ReturnEarly("branch_exists") /\ UNCHANGED counters
       ELSE IF ReturnsBeforeBranch(dry_run)
       THEN /\ alerts_processed' = Append(alerts_processed, DryRunEntry(CurrentAlert))
            /\ pc' = "ret"
            /\ exitAt' = "dry_run"
            /\ result' = TRUE
            /\ UNCHANGED <<prs_created, hostPRs>>
       ELSE /\ pc' = "checkout_b"
            /\ UNCHANGED <<exitAt, result, counters>>
    /\ UNCHANGED <<config, engine, listing, alerts, idx, git, gate, steps, run, earlier, invoked>>

\* self._git_run(['checkout', '-b', branch_name]), before the try: a failure
\* (always, when the local branch exists) is a CalledProcessError out of the call.
CheckoutNew ==
    /\ pc = "checkout_b"
    /\ \E ok \in BOOLEAN :
         IF ok /\ branch_name \notin localHeads
         THEN /\ cur' = branch_name
              /\ localHeads' = localHeads \cup {branch_name}
              /\ pc' = "patch"
              /\ UNCHANGED exitAt
         ELSE /\ pc' = "raised"
              /\ exitAt' = "checkout_b"
              /\ UNCHANGED <<cur, localHeads>>
    /\ UNCHANGED <<config, engine, listing, alerts, idx, counters, remoteHeads, staged, unstaged,
                   branch_name, result, gate, steps, run, earlier, invoked>>

\* Changed lines an update_requirement pass leaves: the rewritten line, unless
\* it already read '<name>==<fixed_version>'.
RequirementLines(same) == IF same THEN 0 ELSE 2

\* apply_fix (alert) / the update_requirement loop (dependency).  A fix that
\* reports failure leaves the file as it was.
ApplyFix ==
    /\ pc = "patch"
    /\ \/ /\ pipeline = "alert"
          /\ \E m \in 0..MaxSecretLines : unstaged' = unstaged + PatchLines(m)
          /\ pc' = "gate"
          /\ steps' = Append(steps, "patch")
          /\ UNCHANGED exitAt
       \/ /\ pipeline = "dependency"
          /\ \E same \in BOOLEAN : unstaged' = unstaged + RequirementLines(same)
          /\ pc' = "add"
          /\ steps' = Append(steps, "patch")
          /\ UNCHANGED exitAt
       \/ /\ pc' = "cleanup"
          /\ exitAt' = "no_fix"
          /\ UNCHANGED <<unstaged, steps>>
    /\ UNCHANGED <<config, engine, listing, alerts, idx, counters, cur, localHeads, remoteHeads, staged,
                   branch_name, result, gate, run, earlier, invoked>>

\* if not self._check_change_limits(file_path): cleanup, return False.
\* gate.lines is the file's whole change against HEAD when the gate ran.
CheckLimits ==
    /\ pc = "gate"
    /\ LET passed == WithinLimits(staged, max_lines)
       IN /\ gate' = [ran |-> TRUE, passed |-> passed, lines |-> staged + unstaged]
          /\ steps' = Append(steps, IF passed THEN "gate_passed" ELSE "gate_failed")
          /\ pc' = AfterGate(passed)
          /\ exitAt' = IF pc' = "cleanup" THEN "over_limit" ELSE exitAt
    /\ UNCHANGED <<config, engine, listing, alerts, idx, counters, git, branch_name, result, run, earlier, invoked>>

\* The except clause: a step of the try block raised.
Raise ==
    /\ pc' = "cleanup"
    /\ exitAt' = "except"
    /\ UNCHANGED steps

\* self._git_run(['add', '.']) / ['add'] + files_updated
GitAdd ==
    /\ pc = "add"
    /\ \/ /\ staged' = staged + unstaged
          /\ unstaged' = 0
          /\ pc' = "commit"
          /\ steps' = Append(steps, "add")
          /\ UNCHANGED exitAt
       \/ Raise /\ UNCHANGED <<staged, unstaged>>
    /\ UNCHANGED <<config, engine, listing, alerts, idx, counters, cur, localHeads, remoteHeads,
                   branch_name, result, gate, run, earlier, invoked>>

\* self._git_run(['commit', '-m', commit_message]): fails on an empty index.
GitCommit ==
    /\ pc = "commit"
    /\ \/ /\ staged > 0
          /\ staged' = 0
          /\ pc' = "push"
          /\ steps' = Append(steps, "commit")
          /\ UNCHANGED exitAt
       \/ Raise /\ UNCHANGED staged
    /\ UNCHANGED <<config, engine, listing, alerts, idx, counters, cur, localHeads, remoteHeads, unstaged,
                   branch_name, result, gate, run, earlier, invoked>>

\* self._git_run(['push', 'origin', branch_name])
GitPush ==
    /\ pc = "push"
    /\ \/ /\ remoteHeads' = remoteHeads \cup {branch_name}
          /\ pc' = "pr"
          /\ steps' = Append(steps, "push")
          /\ UNCHANGED exitAt
       \/ Raise /\ UNCHANGED remoteHeads
    /\ UNCHANGED <<config, engine, listing, alerts, idx, counters, cur, localHeads, staged, unstaged,
                   branch_name, result, gate, run, earlier, invoked>>

\* _create_pull_request and the if/else on its result: 201, another status,
\* or an exception of the request.
CreatePullRequest ==
    /\ pc = "pr"
    /\ \/ /\ hostPRs' = Append(hostPRs, branch_name)
          /\ prs_created' = prs_created + 1
          /\ alerts_processed' = Append(alerts_processed, CreatedEntry(CurrentAlert))
          /\ result' = TRUE
          /\ exitAt' = "pr_created"
          /\ pc' = "finally"
          /\ steps' = Append(steps, "pr")
       \/ /\ pc' = "cleanup"
          /\ exitAt' = "pr_failed"
          /\ UNCHANGED <<counters, result, steps>>
       \/ Raise /\ UNCHANGED <<counters, result>>
    /\ UNCHANGED <<config, engine, listing, alerts, idx, git, branch_name, gate, run, earlier, invoked>>

\* _cleanup_branch: git checkout main, git branch -D <branch>, both check=False.
\* git refuses to delete the branch that is checked out.
CleanupBranch ==
    /\ pc = "cleanup"
    /\ \E coOk \in BOOLEAN, delOk \in BOOLEAN :
         /\ cur' = IF coOk THEN Trunk ELSE cur
         /\ localHeads' = IF delOk /\ cur' # branch_name
                          THEN localHeads \ {branch_name} ELSE localHeads
    /\ pc' = "finally"
    /\ UNCHANGED <<config, engine, listing, alerts, idx, counters, remoteHeads, staged, unstaged,
                   attempt, run, earlier, invoked>>

\* finally: self._git_run(['checkout', 'main']): a failure raises out of
\* process_alert, replacing its return.
FinallyCheckout ==
    /\ pc = "finally"
    /\ \E ok \in BOOLEAN :
         /\ cur' = CheckoutMain(ok, cur)
         /\ pc' = IF ok THEN "ret" ELSE "raised"
    /\ UNCHANGED <<config, engine, listing, alerts, idx, counters, localHeads, remoteHeads, staged, unstaged,
                   attempt, run, earlier, invoked>>

\* Back in run(): (dependency) if success: self.prs_created += 1; next alert.
\* The locals of process_alert are gone.
AttemptReturns ==
    /\ pc = "ret"
    /\ prs_created' = IF pipeline = "dependency" /\ result
                      THEN prs_created + 1 ELSE prs_created
    /\ idx' = idx + 1
    /\ pc' = "loop"
    /\ branch_name' = NoBranch
    /\ exitAt' = ""
    /\ result' = FALSE
    /\ gate' = NoGate
    /\ steps' = <<>>
    /\ UNCHANGED <<config, engine, listing, alerts, alerts_processed, hostPRs, git, run, earlier, invoked>>

CreatedIds(processed) ==
    { processed[i].alert_id : i \in { j \in DOMAIN processed : processed[j].status = "pr_created" } }

\* The script is started again: a new object and a new clone, the same store
\* and the remote as the run before left it.
StartNextRun ==
    /\ pc \in {"done", "raised", "env_error"}
    /\ run < MaxRuns
    /\ run' = run + 1
    /\ earlierPRs' = earlierPRs \cup CreatedIds(alerts_processed)
    /\ prevAlerts' = alerts
    /\ invoked' = <<>>
    /\ listing' = "pending"
    /\ alerts' = <<>>
    /\ pc' = "start"
    /\ idx' = 1
    /\ prs_created' = 0
    /\ alerts_processed' = <<>>
    /\ hostPRs' = <<>>
    /\ cur' = Trunk
    /\ localHeads' = {}
    /\ staged' = 0
    /\ unstaged' = 0
    /\ branch_name' = NoBranch
    /\ exitAt' = ""
    /\ result' = FALSE
    /\ gate' = NoGate
    /\ steps' = <<>>
    /\ UNCHANGED <<config, engine, remoteHeads>>

\* The status of the summary run() returns, once it returns.
Status == SummaryStatus(dry_run, prs_created)

\* The exit status of the process: main's return value; 2 after the
\* EnvironmentError and 3 after any other exception in the dependency
\* pipeline; 1 when the exception leaves main in the alert pipeline.
ExitCode ==
    CASE pc = "env_error" -> 2
      [] pc = "raised" -> IF pipeline = "dependency" THEN 3 ELSE 1
      [] OTHER -> MainReturn(dry_run, prs_created)

Attempt ==
    \/ GetAlertDetails \/ Locate \/ BranchCheck \/ CheckoutNew \/ ApplyFix
    \/ CheckLimits \/ GitAdd \/ GitCommit \/ GitPush \/ CreatePullRequest
    \/ CleanupBranch \/ FinallyCheckout \/ AttemptReturns

Next == Startup \/ FetchAlerts \/ LoopNext \/ Attempt \/ StartNextRun

Spec == Init /\ [][Next]_vars

\* One run of the script, from its start to the end of the process.  Every
\* external call returning, the interpreter takes the run's next step
\* whenever there is one.
NextRun == Startup \/ FetchAlerts \/ LoopNext \/ Attempt

SpecRun == Init /\ [][NextRun]_vars /\ WF_vars(NextRun)

NextFetch == Startup \/ FetchAlerts

SpecFetch == InitFetch /\ [][NextFetch]_vars

\* ------------------------------------------------- _get_fix_strategy alone
\* Keys of alert_strategies and alert types, as sequences of pieces.
RegistryKeys == { <<"sql">>, <<"sql", "-injection">>, <<"SQL", "-injection">>,
                  <<"sql", "-injection", "-cwe89">>, <<"xss">> }
Categories == RegistryKeys \cup { <<>>, <<"-injection">> }

\* A mapping has each key once.
Registries(n) ==
    UNION { { r \in [1..k -> [key : RegistryKeys, fix_type : {"comment"}]] :
                \A i, j \in 1..k : i # j => r[i].key # r[j].key } : k \in 0..n }

\* Everything but the strategy lookup and the fix is at rest.
AtRest ==
    /\ pipeline = "alert"
    /\ env_ok = TRUE
    /\ dry_run = FALSE
    /\ max_prs = MaxCap
    /\ max_lines = MaxLimit
    /\ severity_filter = "high"
    /\ rawAlerts = <<>>
    /\ InitRun

InitResolve ==
    /\ AtRest
    /\ strategies \in Registries(MaxEntries)
    /\ alert_type \in Categories
    /\ strategy = NoStrategy
    /\ file_lines = <<>>
    /\ start_line = 1
    /\ end_line = 1
    /\ ext = ".py"
    /\ fix_applied = FALSE
    /\ written = <<>>
    /\ io = "ok"
    /\ NoLabelling
    /\ package_name = <<>>

\* strategy = self._get_fix_strategy(alert_type)
Resolve ==
    /\ pc = "start"
    /\ strategy' = GetFixStrategy(strategies, alert_type)
    /\ pc' = "resolved"
    /\ UNCHANGED <<config, listing, alerts, idx, counters, git, attempt, run, earlier, invoked,
                   strategies, alert_type, file_lines, start_line, end_line, ext,
                   fix_applied, written, io, default_labels, pr_labels, package_name>>

\* apply_fix up to its dispatch: alert_type = alert.get('alertType', '').lower();
\* strategy = self._get_fix_strategy(alert_type)
ResolveForFix ==
    /\ pc = "start"
    /\ strategy' = GetFixStrategy(strategies, LowerStr(alert_type))
    /\ pc' = "dispatched"
    /\ UNCHANGED <<config, listing, alerts, idx, counters, git, attempt, run, earlier, invoked,
                   strategies, alert_type, file_lines, start_line, end_line, ext,
                   fix_applied, written, io, default_labels, pr_labels, package_name>>

NextResolve == Resolve \/ ResolveForFix

SpecResolve == InitResolve /\ [][NextResolve]_vars

\* ------------------------------------------------------- apply_fix alone
\* Lines without their line end: blank, code at three indentations, a comment.
LineBodies == { <<>>, <<"a">>, <<" ", "a">>, <<" ", " ", "b">>, <<" ", "#", "a">> }

\* The files of n lines: every line ends with "\n", the last one possibly
\* not when it holds a character.
FilesOf(n) ==
    { [i \in 1..n |-> IF i = n /\ ~nl /\ b[i] # <<>> THEN b[i] ELSE b[i] \o <<"\n">>] :
        b \in [1..n -> LineBodies], nl \in BOOLEAN }

\* The alert's type is the one key of the registry, or the registry is empty.
\* end_line is read by the secret fix alone; the other fixes get a one-line
\* region.
InitPatch ==
    /\ AtRest
    /\ alert_type = <<"sql", "-injection">>
    /\ strategies \in { <<>> } \cup { <<[key |-> alert_type, fix_type |-> t]>> : t \in FixTypes }
    /\ strategy = NoStrategy
    /\ \E n \in 0..MaxFileLines :
         /\ file_lines \in FilesOf(n)
         /\ start_line \in 0..(n + 1)
    /\ end_line \in start_line..(start_line + MaxSpan)
    /\ (end_line # start_line =>
          \E i \in DOMAIN strategies : strategies[i].fix_type = "environment_variable")
    /\ ext \in Exts
    /\ fix_applied = FALSE
    /\ written = file_lines
    /\ io = "ok"
    /\ NoLabelling
    /\ package_name = <<>>

\* if not strategy: comment; fix_type = strategy.get('fix_type', 'comment')
FixTypeOf(s) == IF s = NoStrategy THEN "comment" ELSE s.fix_type

\* The file system under a fix: both opens work, open(file_path, 'r') or the
\* read raises, or open(file_path, 'w') or the write raises.
IOOutcomes == {"ok", "read_error", "write_error"}

\* A fix without its try block: what the file system raises leaves apply_fix.
RaisesOnIOError(outcome) == outcome = "ok"

\* Every fix runs in try: ... except Exception: return False, so apply_fix
\* returns whatever the file system raises.
ApplyReturns(outcome) == TRUE

\* The file a failed write leaves: open(file_path, 'w') raised and the file
\* is as it was, or the file was truncated and the write raised.
AfterFailedWrite(lines) == {lines, <<>>}

\* apply_fix: look the strategy up, dispatch on its fix_type, rewrite the file.
\* A fix that returns before its write (a rejected line number, the seek on
\* the closed file, an IndexError) never meets a write error.
ApplyFixToFile ==
    /\ pc = "start"
    /\ strategy' = GetFixStrategy(strategies, LowerStr(alert_type))
    /\ \E outcome \in IOOutcomes :
         /\ io' = outcome
         /\ pc' = IF ApplyReturns(outcome) THEN "fixed" ELSE "fix_raised"
         /\ \/ /\ outcome = "ok"
               /\ fix_applied' = FixSucceeds(FixTypeOf(strategy'), file_lines, start_line)
               /\ written' = ReadLines(Concat(FixedLines(FixTypeOf(strategy'), file_lines,
                                                          start_line, end_line, ext)), <<>>)
            \/ /\ outcome = "read_error"
               /\ fix_applied' = FALSE
               /\ written' = file_lines
            \/ /\ outcome = "write_error"
               /\ FixSucceeds(FixTypeOf(strategy'), file_lines, start_line)
               /\ fix_applied' = FALSE
               /\ written' \in AfterFailedWrite(file_lines)
    /\ UNCHANGED <<config, listing, alerts, idx, counters, git, attempt, run, earlier, invoked,
                   strategies, alert_type, file_lines, start_line, end_line, ext,
                   default_labels, pr_labels, package_name>>

NextPatch == ApplyFixToFile

SpecPatch == InitPatch /\ [][NextPatch]_vars

\* ------------------------------------------- _create_pull_request's labels
\* pr_config as the YAML file or _default_config gives it: without
\* default_labels, with an empty list, with the default two.
ConfiguredLabels ==
    { [configured |-> FALSE, labels |-> <<>>],
      [configured |-> TRUE, labels |-> <<>>],
      [configured |-> TRUE, labels |-> <<"security", "automated-fix">>] }

\* f"severity-{severity}"
LabelFor(severity) == <<"severity-", severity>>

\* labels = config.get('pr_config', {}).get('default_labels', []): the
\* configured list itself, or a new empty list when there is none.
LabelsObject(conf) == IF conf.configured THEN conf.labels ELSE <<>>

\* labels.append(...) seen through the configuration: the configured list is
\* the object appended to; a list made by the default is dropped.
ConfigAfterAppend(conf, severity) ==
    IF conf.configured
    THEN [conf EXCEPT !.labels = Append(conf.labels, LabelFor(severity))]
    ELSE conf

InitLabels ==
    /\ AtRest
    /\ strategies = <<>>
    /\ alert_type = <<>>
    /\ strategy = NoStrategy
    /\ file_lines = <<>>
    /\ start_line = 1
    /\ end_line = 1
    /\ ext = ".py"
    /\ fix_applied = FALSE
    /\ written = <<>>
    /\ io = "ok"
    /\ default_labels \in ConfiguredLabels
    /\ pr_labels = <<>>
    /\ package_name = <<>>

\* _create_pull_request up to its payload, for an alert of some severity; idx
\* counts the calls of the run.
BuildPayload ==
    /\ pc \in {"start", "submitted"}
    /\ idx <= MaxSubmissions
    /\ \E severity \in Severities :
         /\ pr_labels' = Append(LabelsObject(default_labels), LabelFor(severity))
         /\ default_labels' = ConfigAfterAppend(default_labels, severity)
    /\ idx' = idx + 1
    /\ pc' = "submitted"
    /\ UNCHANGED <<config, listing, alerts, counters, git, attempt, run, earlier, invoked,
                   strategies, alert_type, strategy, file_lines, start_line, end_line, ext,
                   fix_applied, written, io, package_name>>

NextLabels == BuildPayload

SpecLabels == InitLabels /\ [][NextLabels]_vars

\* ----------------------------------------------------- update_requirement
\* A requirement line is a sequence of pieces: words of letters and digits,
\* ".", "==", "#", " " and "\n".  "Flask" and "FLASK" are "flask" in other
\* letter case.
NameClass == {"flask", "Flask", "FLASK", "zope", "interface", "1", "2"}

\* str.lower() on the pieces of a name
LowerName(name) ==
    [i \in DOMAIN name |-> IF name[i] \in {"Flask", "FLASK"} THEN "flask" ELSE name[i]]

\* match.group(1) of re.match(r'^([a-zA-Z0-9_-]+)(.*)', stripped): the longest
\* run of name characters the line starts with; <<>> when there is no match.
RECURSIVE RegexName(_)
RegexName(stripped) ==
    IF stripped # <<>> /\ Head(stripped) \in NameClass
    THEN <<Head(stripped)>> \o RegexName(Tail(stripped))
    ELSE <<>>

\* The version the alert names as fixed.
FixedVersion == "2"

\* The line is no comment, not empty, and pkg_name.lower() == package_name.lower().
LineMatches(line, name) ==
    /\ Strip(line) # <<>>
    /\ ~StartsWith(Strip(line), <<"#">>)
    /\ RegexName(Strip(line)) # <<>>
    /\ LowerName(RegexName(Strip(line))) = LowerName(name)

\* new_line = f"{pkg_name}=={fixed_version}\n", or the line as it was.
UpdatedLine(line, name) ==
    IF LineMatches(line, name)
    THEN RegexName(Strip(line)) \o <<"==", FixedVersion, "\n">>
    ELSE line

\* updated
AnyLineMatches(lines, name) == \E i \in DOMAIN lines : LineMatches(lines[i], name)

\* new_lines
UpdatedLines(lines, name) == [i \in DOMAIN lines |-> UpdatedLine(lines[i], name)]

\* Requirement lines without their line end: blank, a comment, pins of flask
\* in three spellings, the pin already at the fixed version, a dotted name.
ReqBodies ==
    { <<>>, <<"#", " ", "flask">>,
      <<"flask", "==", "1">>, <<"Flask", "==", "1">>, <<" ", "flask", "==", "1">>,
      <<"flask", "==", "2">>, <<"zope", ".", "interface", "==", "1">> }

RequirementFiles(n) ==
    { [i \in 1..n |-> IF i = n /\ ~nl /\ b[i] # <<>> THEN b[i] ELSE b[i] \o <<"\n">>] :
        b \in [1..n -> ReqBodies], nl \in BOOLEAN }

\* The package names of the alerts.
TargetNames == { <<"flask">>, <<"FLASK">>, <<"zope">> }

InitRequirement ==
    /\ AtRest
    /\ strategies = <<>>
    /\ alert_type = <<>>
    /\ strategy = NoStrategy
    /\ \E n \in 0..MaxReqLines : file_lines \in RequirementFiles(n)
    /\ start_line = 1
    /\ end_line = 1
    /\ ext = ".txt"
    /\ fix_applied = FALSE
    /\ written = file_lines
    /\ io = "ok"
    /\ NoLabelling
    /\ package_name \in TargetNames

\* update_requirement on the file as it stands (written): read, rewrite the
\* matching lines, write when a line matched; any exception returns False.
\* A second call leaves pc at "updated_twice" after a first one that met no
\* error, at "retried" otherwise.
UpdateRequirement ==
    /\ pc \in {"start", "updated"}
    /\ pc' = IF pc = "start" THEN "updated"
             ELSE IF io = "ok" THEN "updated_twice" ELSE "retried"
    /\ file_lines' = written
    /\ \E outcome \in IOOutcomes :
         /\ io' = outcome
         /\ \/ /\ outcome = "ok"
               /\ fix_applied' = AnyLineMatches(written, package_name)
               /\ written' = IF AnyLineMatches(written, package_name)
                             THEN ReadLines(Concat(UpdatedLines(written, package_name)), <<>>)
                             ELSE written
            \/ /\ outcome = "read_error"
               /\ fix_applied' = FALSE
               /\ written' = written
            \/ /\ outcome = "write_error"
               /\ AnyLineMatches(written, package_name)
               /\ fix_applied' = FALSE
               /\ written' \in AfterFailedWrite(written)
    /\ UNCHANGED <<config, listing, alerts, idx, counters, git, attempt, run, earlier, invoked,
                   strategies, alert_type, strategy, start_line, end_line, ext,
                   default_labels, pr_labels, package_name>>

NextRequirement == UpdateRequirement

SpecRequirement == InitRequirement /\ [][NextRequirement]_vars

\* ------------------------------------------------------------- properties
PRCount == Cardinality({ j \in DOMAIN alerts_processed :
                            alerts_processed[j].status = "pr_created" })

\* The pcs at which a step of process_alert is about to run, up to the PR call.
StepPcs == {"detail", "locate", "branch_check", "checkout_b", "patch", "gate",
            "add", "commit", "push", "pr"}

\* The pcs past the branch-exists check of an attempt.
PastBranchCheck == {"checkout_b", "patch", "gate", "add", "commit", "push", "pr",
                    "cleanup", "finally"}

\* C1: in either pipeline and for every cap N >= 0, a run never holds more
\* than N 'pr_created' entries, nor has the host accepted more than N pull
\* requests of the run.
C1_CapInvariant == PRCount <= max_prs /\ Len(hostPRs) <= max_prs

\* C1 witness: a finished run that created exactly N >= 1 pull requests out of
\* more than N alerts.
C1_Witness ==
    pc = "done" /\ max_prs >= 1 /\ PRCount = max_prs /\ Len(alerts) > max_prs

C3_CleanupOnPRFailure ==
    (pc = "ret" /\ exitAt = "pr_failed") =>
        /\ branch_name \notin localHeads
        /\ cur = Trunk
        /\ alerts_processed # <<>>
        /\ alerts_processed[Len(alerts_processed)] =
               [alert_id |-> CurrentAlert.alertId, status |-> "failed"]

\* C4 as stated: no step failure of one alert raises out of the per-alert
\* operation; the run always goes on to its summary.
C4_NoFailureAborts == pc # "raised"

\* The outcomes the specification's Run Summary may hold.
Outcomes == {"pr_created", "skipped_duplicate", "skipped_no_strategy",
             "skipped_over_limit", "skipped_no_location", "failed"}

\* C5 as stated: when the attempt on the idx-th alert returns, the processed
\* list holds one entry per attempted alert, in order, with a known outcome.
C5_EveryAttemptRecorded ==
    pc = "ret" =>
        /\ Len(alerts_processed) = idx
        /\ \A j \in 1..idx :
             /\ alerts_processed[j].alert_id = alerts[j].alertId
             /\ alerts_processed[j].status \in Outcomes

\* C6 as stated: the loop ends only when every filtered alert was attempted
\* or the successful attempts number N.
C6_RunsUntilExhaustedOrCap ==
    pc = "done" => (idx > Len(alerts) \/ Len(alerts_processed) = max_prs)

\* C7: once the host has accepted N pull requests in the run, no step of
\* process_alert runs again, and the alerts behind the loop position have
\* no entry.
C7_StopsAtCap ==
    /\ Len(hostPRs) >= max_prs => pc \notin StepPcs
    /\ \A j \in DOMAIN alerts :
         j > idx => alerts[j].alertId \notin
                      { alerts_processed[k].alert_id : k \in DOMAIN alerts_processed }

\* C7 witness: a finished run that reached a cap N >= 1 with an alert left
\* unattempted.
C7_Witness ==
    pc = "done" /\ max_prs >= 1 /\ Len(hostPRs) = max_prs /\ idx <= Len(alerts)

\* C8 as stated: whenever an attempt has ended, by a return or by a raise,
\* trunk is checked out.
C8_Original == pc \in {"ret", "raised"} => cur = Trunk

\* C8 amended: in a run started on trunk, trunk is checked out whenever an
\* attempt has returned and whenever the next one starts; only an attempt
\* that raises (its final checkout of trunk failed) can leave the working
\* branch checked out, and the run ends there.
C8_TrunkBetweenAttempts ==
    pc \in {"ret", "loop", "done", "detail", "locate", "branch_check", "checkout_b"}
        => cur = Trunk

\* C8 witness: an attempt that went through the try block (here to a created
\* PR, or to a cleanup whose branch deletion was refused) has returned.
C8_Witness ==
    pc = "ret" /\ branch_name \in localHeads /\ cur = Trunk

\* C9 as stated: the gate passes iff the file's change against its committed
\* state is at most max_lines_changed_per_file lines.
C9_GateBoundary == gate.ran => (gate.passed <=> gate.lines <= max_lines)

\* The rank the claim gives a severity, case ignored.
ClaimRank(sev) ==
    CASE sev \in {"critical", "Critical"} -> 4
      [] sev \in {"high", "HIGH"} -> 3
      [] sev = "medium" -> 2
      [] sev = "low" -> 1
      [] OTHER -> 0

\* The alerts the severity filter is given: all of them, or (dependency
\* pipeline) those the keyword filter kept.
FilterInput ==
    { rawAlerts[i] : i \in { j \in DOMAIN rawAlerts :
                               pipeline = "dependency" => IsDependency(rawAlerts[j]) } }

Range(seq) == { seq[i] : i \in DOMAIN seq }

\* C10: after a listing that answered, the filtered list holds, once each,
\* exactly the alerts whose rank is at least the threshold's; none of rank 0;
\* and for threshold 'high' exactly the critical and high ones.
C10_SeverityFilter ==
    listing = "ok" =>
        /\ Range(alerts) = { a \in FilterInput :
                               ClaimRank(a.severity) >= ClaimRank(severity_filter) }
        /\ Len(alerts) = Cardinality(Range(alerts))
        /\ \A a \in Range(alerts) : ClaimRank(a.severity) # 0
        /\ severity_filter = "high" =>
             Range(alerts) = { a \in FilterInput :
                                 a.severity \in {"critical", "Critical", "high", "HIGH"} }

\* C10 witness: threshold 'high' over a listing with a critical, a high and
\* an unknown alert keeps two of the three.
C10_Witness ==
    /\ listing = "ok" /\ severity_filter = "high"
    /\ Len(rawAlerts) = 3 /\ Len(alerts) = 2
    /\ \E a \in Range(rawAlerts) : a.severity = "info"
    /\ \E a \in Range(alerts) : a.severity = "critical"
    /\ \E a \in Range(alerts) : a.severity = "HIGH"

\* The registry positions whose key is the category, and those whose
\* lower-cased key is inside the category or holds it.
ExactEntries == { i \in DOMAIN strategies : strategies[i].key = alert_type }

PartialEntries ==
    { i \in DOMAIN strategies :
        \/ IsSubstring(LowerStr(strategies[i].key), alert_type)
        \/ IsSubstring(alert_type, LowerStr(strategies[i].key)) }

Least(S) == CHOOSE i \in S : \A j \in S : i <= j

\* The rule of C11: the exact entry, else the first partial one, else none.
ResolutionRule ==
    pc = "resolved" =>
        IF ExactEntries # {} THEN \A i \in ExactEntries : strategy = strategies[i]
        ELSE IF PartialEntries # {} THEN strategy = strategies[Least(PartialEntries)]
        ELSE strategy = NoStrategy

SqlInjectionCwe89 == <<"sql", "-injection", "-cwe89">>
SqlInjection == <<"sql", "-injection">>

\* C11 as stated: the rule, and 'sql-injection-cwe89' resolves to the entry
\* keyed 'sql-injection' whenever the registry has one and no exact key.
C11_Original ==
    /\ ResolutionRule
    /\ (/\ pc = "resolved" /\ alert_type = SqlInjectionCwe89 /\ ExactEntries = {}
        /\ \E i \in DOMAIN strategies : strategies[i].key = SqlInjection)
           => strategy.key = SqlInjection

\* C11 amended: the exact entry, else the first entry in configured order
\* that matches partially, else none; 'sql-injection-cwe89' resolves to the
\* entry keyed 'sql-injection' when there is no exact key and no entry
\* before it matches partially.
C11_StrategyResolution ==
    /\ ResolutionRule
    /\ \A i \in DOMAIN strategies :
         (/\ pc = "resolved" /\ alert_type = SqlInjectionCwe89 /\ ExactEntries = {}
          /\ strategies[i].key = SqlInjection
          /\ \A j \in PartialEntries : i <= j)
            => strategy = strategies[i]

\* C11 witness: 'sql-injection-cwe89' resolved, by substring, to the second
\* entry of a registry whose first entry does not match.
C11_Witness ==
    /\ pc = "resolved" /\ alert_type = SqlInjectionCwe89
    /\ Len(strategies) = 2 /\ strategies[1].key = <<"xss">>
    /\ strategies[2].key = SqlInjection /\ strategy = strategies[2]

\* The blanks a line starts with, its line end not counted.
RECURSIVE LeadingBlanks(_)
LeadingBlanks(line) ==
    IF line # <<>> /\ Head(line) = " " THEN <<" ">> \o LeadingBlanks(Tail(line)) ELSE <<>>

\* The variants that only insert the advisory line.
InsertOnlyVariants == {"comment", "parameterized_query", "sanitization", "path_validation"}

InRange == start_line >= 1 /\ start_line <= Len(file_lines)

\* C12 as stated: for an insert-only variant and 1 <= start_line <= line
\* count, the file after the fix is the file before with exactly one line
\* more, placed before original line start_line and indented as that line is;
\* every original line is kept, in order.
C12_LineInsertion ==
    (pc = "fixed" /\ io = "ok" /\ FixTypeOf(strategy) \in InsertOnlyVariants /\ InRange) =>
        /\ fix_applied
        /\ Len(written) = Len(file_lines) + 1
        /\ \A i \in 1..(start_line - 1) : written[i] = file_lines[i]
        /\ \A i \in start_line..Len(file_lines) : written[i + 1] = file_lines[i]
        /\ LeadingBlanks(written[start_line]) = LeadingBlanks(file_lines[start_line])

\* A line with its leading blanks taken off.
Unindented(line) == SubSeq(line, Len(LeadingBlanks(line)) + 1, Len(line))

\* A commented-out copy of a line, prefixed with 'REMOVED:', at the line's
\* own indentation.
RemovedCopies(line) ==
    { LeadingBlanks(line) \o marker \o <<"REMOVED:", " ">> \o Unindented(line) :
        marker \in { <<"#", " ">>, <<"/", "/", " ">> } }

\* C13 as stated: the secret fix inserts the advisory line above start_line,
\* rewrites every line of [start_line, end_line] that is no comment as a
\* 'REMOVED:' copy at its own indentation, and leaves the other lines.
C13_SecretExternalization ==
    (pc = "fixed" /\ io = "ok" /\ FixTypeOf(strategy) = "environment_variable" /\ InRange) =>
        /\ fix_applied
        /\ Len(written) = Len(file_lines) + 1
        /\ \A i \in DOMAIN file_lines :
             IF i < start_line THEN written[i] = file_lines[i]
             ELSE IF i > end_line \/ IsCommentLine(file_lines[i])
                  THEN written[i + 1] = file_lines[i]
                  ELSE written[i + 1] \in RemovedCopies(file_lines[i])

\* The pcs of an attempt between its branch check and its PR call.
AfterBranchCheck == {"checkout_b", "patch", "gate", "add", "commit", "push", "pr"}

C15_Original ==
    pc = "done" =>
        Status = (IF Len(hostPRs) >= 1 THEN "success" ELSE "no_prs_created")

\* C15 amended: outside dry-run mode the summary's status is 'success' when
\* the run created a pull request and 'no_prs_created' when it created none
\* (a failed or empty listing included); in dry-run mode it is 'dry_run'.
C15_SummaryStatus ==
    pc = "done" =>
        Status = (IF dry_run THEN "dry_run"
                  ELSE IF Len(hostPRs) >= 1 THEN "success" ELSE "no_prs_created")

\* C15 witness: a finished run of the dependency pipeline with a pull request
\* and status 'success'.
C15_Witness ==
    /\ pc = "done" /\ pipeline = "dependency" /\ ~dry_run
    /\ Len(hostPRs) = 1 /\ Status = "success"

\* The process has ended after a start with its environment complete.
Exited == pc \in {"done", "raised"}

\* C16 as stated (startup failures, which C17 treats, left aside): the exit
\* status is 0 exactly when the run created a pull request or ran in dry-run
\* mode.
C16_ExitCode ==
    Exited => (ExitCode = 0 <=> (Len(hostPRs) >= 1 \/ dry_run))

\* C17 as stated: with a mandatory variable unset nothing is fetched, no git
\* command runs, no pull request is submitted, and the exit status differs
\* from the one of a run that created no pull request.
C17_StartupFailure ==
    ~env_ok =>
        /\ pc \in {"start", "env_error"}
        /\ listing = "pending"
        /\ cur = Trunk /\ localHeads = {} /\ remoteHeads = {}
        /\ hostPRs = <<>>
        /\ pc = "env_error" => ExitCode \notin {0, 1}

IsPrefix(p, q) == Len(p) <= Len(q) /\ SubSeq(q, 1, Len(p)) = p

\* The attempt's completed steps are in the order patch, gate (once), add,
\* commit, push, PR, and nothing follows a gate that did not pass.
GatedOrder ==
    /\ \E g \in {"gate_passed", "gate_failed"} :
         IsPrefix(steps, <<"patch", g, "add", "commit", "push", "pr">>)
    /\ Len(steps) >= 3 => steps[2] = "gate_passed"

\* The same order without a gate.
UngatedOrder == IsPrefix(steps, <<"patch", "add", "commit", "push", "pr">>)

\* C19 as stated: in every attempt the gate is evaluated once, after the
\* patch and before the commit; commit, push and PR each follow the success
\* of the step before; prs_created counts only accepted pull requests.
C19_Original ==
    /\ GatedOrder
    /\ prs_created > 0 => hostPRs # <<>>

\* C19 amended: in the alert pipeline the steps follow the gated order; the
\* dependency pipeline has no gate and keeps the order of the other steps.
\* prs_created grows only on an accepted pull request (by one in the alert
\* pipeline, by up to two in the dependency pipeline) or, in a dry run, on a
\* would-fix record.
C19_StepOrder ==
    /\ IF pipeline = "alert" THEN GatedOrder ELSE UngatedOrder
    /\ pipeline = "alert" => prs_created = Len(hostPRs)
    /\ (pipeline = "dependency" /\ ~dry_run) => prs_created <= 2 * Len(hostPRs)
    /\ dry_run => (hostPRs = <<>> /\ prs_created <= Len(alerts_processed))

\* C19 witness: an attempt of the alert pipeline went through patch, gate,
\* add, commit, push and PR, and counted its pull request.
C19_Witness ==
    /\ pipeline = "alert" /\ pc = "ret" /\ result
    /\ steps = <<"patch", "gate_passed", "add", "commit", "push", "pr">>
    /\ prs_created = 1

\* C20 as stated: an attempt whose patch changes more lines than
\* max_lines_changed_per_file commits, pushes and submits nothing, and
\* returns as over the limit with trunk checked out and its branch deleted.
C20_OverLimitNoEffect ==
    (gate.ran /\ gate.lines > max_lines) =>
        /\ pc \notin {"add", "commit", "push", "pr"}
        /\ Range(steps) \cap {"commit", "push", "pr"} = {}
        /\ pc = "ret" => (/\ exitAt = "over_limit" /\ cur = Trunk
                          /\ branch_name \notin localHeads)

\* C21: after a listing that answered, the filtered list is in descending
\* severity rank, and alerts of equal rank stand in the order of the store's
\* listing (alertId is the position there).
C21_StableSort ==
    listing = "ok" =>
        \A i, j \in DOMAIN alerts :
            i < j => \/ ClaimRank(alerts[i].severity) > ClaimRank(alerts[j].severity)
                     \/ /\ ClaimRank(alerts[i].severity) = ClaimRank(alerts[j].severity)
                        /\ alerts[i].alertId < alerts[j].alertId

\* C21 witness: the store listed two alerts of one rank and then a higher
\* one; the higher one comes first, the two others in their listed order.
C21_Witness ==
    /\ listing = "ok" /\ Len(alerts) = 3
    /\ alerts[1].alertId = 3 /\ alerts[2].alertId = 1 /\ alerts[3].alertId = 2
    /\ ClaimRank(alerts[2].severity) = ClaimRank(alerts[3].severity)

\* The fix kinds apply_fix names in its dispatch.
KnownKinds == {"parameterized_query", "sanitization", "environment_variable",
               "secure_random", "path_validation"}

\* No strategy was resolved, or its fix_type is none of the known kinds.
FellBack == strategy = NoStrategy \/ strategy.fix_type \notin KnownKinds

\* C22: when no strategy is resolved, or the strategy's fix_type is not a
\* known kind, the advisory-comment fix is applied: with a valid start_line
\* and no I/O error apply succeeds and the file holds the advisory line; and
\* whatever the kind, a fix that succeeds at a valid location leaves the file
\* changed.
C22_NoStrategyFallback ==
    (pc = "fixed" /\ InRange) =>
        /\ (FellBack /\ io = "ok") =>
              /\ fix_applied
              /\ Len(written) > Len(file_lines)
              /\ \E k \in DOMAIN written : "msg" \in Range(written[k])
        /\ fix_applied => written # file_lines

\* C22 witness: a strategy of an unknown kind, and a finding without any
\* strategy, both end with the advisory line in the file.
C22_Witness ==
    /\ pc = "fixed" /\ InRange /\ io = "ok" /\ fix_applied
    /\ strategy # NoStrategy /\ strategy.fix_type = "manual_review"
    /\ Len(written) = Len(file_lines) + 1
    /\ "msg" \in Range(written[start_line])

\* C23 as stated: whatever the fix kind, a start_line of 0 or less, or one past
\* the file's last line, makes apply report failure and leaves the file as it
\* was.
C23_LineValidation ==
    (pc = "fixed" /\ ~InRange) => (~fix_applied /\ written = file_lines)

\* The text 'import secrets' occurs in some line of the file.
HasImportSecrets(lines) == \E i \in DOMAIN lines : "import secrets" \in Range(lines[i])

\* C24 as stated: for a .py file, a valid start_line and no I/O error, the
\* insecure-randomness fix succeeds; a file without 'import secrets' gets it
\* as first line and the advisory line above the target line, a file with it
\* gets the advisory line only.
C24_InsecureRandom ==
    (pc = "fixed" /\ io = "ok" /\ InRange /\ ext = ".py"
       /\ FixTypeOf(strategy) = "secure_random") =>
        /\ fix_applied
        /\ IF HasImportSecrets(file_lines)
           THEN /\ Len(written) = Len(file_lines) + 1
                /\ "msg" \in Range(written[start_line])
                /\ written[start_line + 1] = file_lines[start_line]
           ELSE /\ Len(written) = Len(file_lines) + 2
                /\ written[1] = <<"import secrets", "\n">>
                /\ \E k \in 2..(Len(written) - 1) :
                     /\ "msg" \in Range(written[k])
                     /\ written[k + 1] = file_lines[start_line]

\* C25: whatever the fix kind, an error of the file system on the fix's read
\* or write makes apply return failure, and apply never ends by raising.
C25_PatchFailuresContained ==
    /\ pc # "fix_raised"
    /\ (pc = "fixed" /\ io # "ok") => ~fix_applied

\* C25 witness: the write of a fix that had its advisory line ready failed
\* behind the truncation, and apply returned failure.
C25_Witness ==
    /\ pc = "fixed" /\ io = "write_error" /\ ~fix_applied
    /\ FixTypeOf(strategy) = "sanitization"
    /\ file_lines # <<>> /\ written = <<>>

\* The outcomes an attempt has reached when its final checkout of trunk runs.
AttemptOutcomes == {"no_fix", "over_limit", "pr_failed", "except", "pr_created"}

\* C26 as stated: a failure of the cleanup's checkout or branch deletion, or
\* of the checkout of trunk that ends the attempt, is never raised to run():
\* an attempt that has reached its outcome hands that outcome back.
C26_CleanupNeverEscalates ==
    exitAt \in AttemptOutcomes => pc # "raised"

\* C27: an attempt that finds no location in the alert's detail is over at
\* once and returns failure; no branch name was formed (so no remote query
\* and no branch creation), the clone is on trunk, and no fix, gate or git
\* step has run on a file.
C27_NoLocationSkip ==
    exitAt = "no_location" =>
        /\ pc = "ret" /\ ~result
        /\ branch_name = NoBranch
        /\ cur = Trunk
        /\ steps = <<>> /\ gate = NoGate

\* C27 witness: the second alert of a run has no location, after the first
\* one received a pull request.
C27_Witness ==
    /\ exitAt = "no_location" /\ pc = "ret"
    /\ idx = 2 /\ Len(hostPRs) = 1 /\ cur = Trunk

\* C28: an attempt whose file matches an exclusion pattern returns failure
\* at once: the alert has no pull request, no fix, gate or git step has run
\* on the file, and the clone holds no working branch for the alert.
C28_ExcludedNeverTouched ==
    exitAt = "excluded" =>
        /\ pc = "ret" /\ ~result
        /\ CurrentAlert.alertId \notin CreatedIds(alerts_processed)
        /\ steps = <<>> /\ gate = NoGate
        /\ branch_name = NoBranch
        /\ cur = Trunk
        /\ BranchName(pipeline, CurrentAlert) \notin localHeads

\* C28 witness: the first alert of a run is excluded and the run goes on.
C28_Witness ==
    /\ exitAt = "excluded" /\ pc = "ret" /\ idx = 1
    /\ Len(alerts) = 2 /\ hostPRs = <<>> /\ localHeads = {}

\* C30 as stated: at every point of a run that is no dry run, in both
\* pipelines, prs_created is the number of pull requests created so far,
\* which is the number of 'pr_created' entries of alerts_processed.
C30_CounterAgreement ==
    ~dry_run => (prs_created = Len(hostPRs) /\ Len(hostPRs) = PRCount)

\* The pcs at which the process has ended: run() returned, an exception left
\* it, or the constructor refused to start.
Finished == {"done", "raised", "env_error"}

\* The ids of the filtered list, in its order.
AlertIds == [i \in DOMAIN alerts |-> alerts[i].alertId]

\* C29: every run ends, and at every point of a run the alerts handed to the
\* per-alert pipeline so far are a prefix of the filtered list, each of them
\* handed over once.
C29_RunTerminates ==
    /\ [](/\ IsPrefix(invoked, AlertIds)
          /\ \A i, j \in DOMAIN invoked : i # j => invoked[i] # invoked[j])
    /\ <>(pc \in Finished)

\* C29 witness: a run over two alerts has ended after handing over both, the
\* first of them without a pull request.
C29_Witness ==
    /\ pc = "done" /\ Len(alerts) = 2 /\ invoked = AlertIds
    /\ Len(hostPRs) = 1 /\ alerts_processed[1].alert_id = alerts[2].alertId

\* The ends of an attempt that has passed its patch step and made no pull
\* request.
EndsWithoutPR == {"no_fix", "over_limit", "except", "pr_failed"}

\* C31 as stated: when an attempt that got to its patch returns without a
\* pull request, neither the working tree nor the index holds a modification.
C31_CleanTreeBetweenFindings ==
    (pc = "ret" /\ exitAt \in EndsWithoutPR) => (staged = 0 /\ unstaged = 0)

\* C32 as stated: when an attempt that got to its patch returns without a
\* pull request, the remote holds no branch of the attempt's name; and in the
\* alert pipeline, where the name is the alert's own, a later run leaves at
\* the branch-exists check only for an alert that received a pull request.
C32_FailedStayRetryable ==
    /\ (pc = "ret" /\ exitAt \in EndsWithoutPR) => branch_name \notin remoteHeads
    /\ (run > 1 /\ pc = "ret" /\ exitAt = "branch_exists" /\ pipeline = "alert")
          => CurrentAlert.alertId \in earlierPRs

\* C33 as stated: every payload carries the configured default labels and the
\* one severity label of its finding, and the configured list is after any
\* number of payloads what it was at startup.
C33_LabelsDoNotAccumulate ==
    /\ default_labels \in ConfiguredLabels
    /\ pc = "submitted" =>
          \E severity \in Severities :
              pr_labels = Append(default_labels.labels, LabelFor(severity))

\* C34 as stated: a finding whose category equals a registry key character
\* for character is fixed with that key's strategy, whatever else the registry
\* holds and in whatever order, upper-case letters in the key included.
C34_ExactKeyWins ==
    pc = "dispatched" => \A i \in ExactEntries : strategy = strategies[i]

\* A key and a category related by equality or, letter case aside, by one
\* being a substring of the other.
Related(key, category) ==
    \/ key = category
    \/ IsSubstring(LowerStr(key), LowerStr(category))
    \/ IsSubstring(LowerStr(category), LowerStr(key))

\* C35 as stated: an empty category resolves to none whatever the registry
\* holds, and an entry is returned only for a non-empty category related to
\* the entry's key.
C35_EmptyCategoryResolvesToNone ==
    pc \in {"resolved", "dispatched"} =>
        /\ alert_type = <<>> => strategy = NoStrategy
        /\ strategy # NoStrategy =>
              /\ alert_type # <<>>
              /\ \E i \in DOMAIN strategies :
                   strategy = strategies[i] /\ Related(strategies[i].key, alert_type)

\* C36: in a dry run of the dependency pipeline the clone stays on trunk with
\* no branch, no change in the working tree or the index, nothing is pushed
\* and no pull request is submitted; an attempt never gets to a git step.
C36_DryRunNoSideEffects ==
    (pipeline = "dependency" /\ dry_run) =>
        /\ cur = Trunk /\ localHeads = {} /\ remoteHeads = {}
        /\ staged = 0 /\ unstaged = 0
        /\ hostPRs = <<>>
        /\ steps = <<>>
        /\ pc \notin AfterBranchCheck \cup {"cleanup", "finally"}

\* C36 witness: a dry run has finished with two alerts recorded as
\* 'dry_run_would_fix' and counted, the clone untouched.
C36_Witness ==
    /\ pipeline = "dependency" /\ dry_run /\ pc = "done"
    /\ Len(alerts_processed) = 2 /\ prs_created = 2
    /\ \A i \in DOMAIN alerts_processed : alerts_processed[i].status = "dry_run_would_fix"

\* The package name a requirement line pins: the words and dots it starts
\* with.
RECURSIVE PinnedName(_)
PinnedName(stripped) ==
    IF stripped # <<>> /\ Head(stripped) \in NameClass \cup {"."}
    THEN <<Head(stripped)>> \o PinnedName(Tail(stripped))
    ELSE <<>>

\* A line that is no comment and pins the package, letter case aside.
PinsPackage(line) ==
    /\ ~StartsWith(Strip(line), <<"#">>)
    /\ PinnedName(Strip(line)) # <<>>
    /\ LowerName(PinnedName(Strip(line))) = LowerName(package_name)

\* '<name>==<fixed_version>' in the spelling of the alert or of the line.
PinAtFixedVersion(line) ==
    { name \o <<"==", FixedVersion, "\n">> : name \in {package_name, PinnedName(Strip(line))} }

\* C37 as stated: update_requirement rewrites every line that is no comment
\* and pins the package (letter case aside) to '<name>==<fixed_version>' and
\* leaves every other line as and where it was; it returns false and writes
\* nothing when no line pins the package; a second application leaves the
\* file of the first.
C37_RequirementUpdate ==
    /\ (pc = "updated" /\ io = "ok") =>
          /\ Len(written) = Len(file_lines)
          /\ \A i \in DOMAIN file_lines :
               IF PinsPackage(file_lines[i])
               THEN written[i] \in PinAtFixedVersion(file_lines[i])
               ELSE written[i] = file_lines[i]
          /\ fix_applied <=> \E i \in DOMAIN file_lines : PinsPackage(file_lines[i])
          /\ ~fix_applied => written = file_lines
    /\ (pc = "updated_twice" /\ io = "ok") => written = file_lines

====
